---- MODULE Spec2Model ----
(***************************************************************************)
(* Task orchestration core of ln_agent: TaskService over the Mongo-backed  *)
(* Task and TaskStatusLog documents.  The store is the `tasks` collection, *)
(* the audit trail is the `task_status_logs` collection.                   *)
(***************************************************************************)
EXTENDS Integers, Sequences, FiniteSets, TLC

\* ---------------------------------------------------------------- bounds
\* tasks created; audit entries after which no further call is issued, in the
\* general model, in the single-task retry model and before two concurrent calls
MaxTasks == 2
MaxLog == 3
MaxRetryLog == 10
MaxRaceLog == 3
MaxFaults == 2
MaxDeletes == 1
MaxDepsLog == 4
MaxClock == 50
MaxList == 3
MaxFlagLog == 4

\* ------------------------------------------------------------- constants
\* Task.__init__ default of max_retries
DefaultMaxRetries == 3

None == "None"
NoTime == -1
NoProgress == -1
OK == "ok"

TaskIds == 1..MaxTasks
SessionIds == {1}
\* an ObjectId no task was ever inserted under
UnknownId == MaxTasks + 1

\* class TaskStatus: the values Task.validate accepts
TaskStatus == {"pending", "in_progress", "completed", "failed", "cancelled", "stale"}
\* class TaskType: the values Task.validate accepts
TaskType == {"research", "data_collection", "analysis", "report"}
\* valid_statuses of the PUT /tasks/<id>/update route
valid_statuses == {"pending", "in_progress", "completed", "failed",
                   "waiting_user", "cancelled", "stale"}

\* error messages raised by the service and the model layer
ErrNotFound == "Task not found"
ErrOnlyFailed == "Only failed tasks can be retried"
ErrMaxRetry == "Maximum retry attempts exceeded"
ErrOnlyActive == "Only pending or in-progress tasks can be cancelled"
ErrTaskType == "Invalid task type"
ErrStatus == "Invalid task status"
ErrProgress == "Progress must be between 0 and 100"
ErrSession == "Session ID is required"
ErrTitle == "Task title is required"
\* a service method returning None because Task.save returned False
SaveFailed == "save returned False"
ErrMissingArgument == "find_by_id() missing 1 required positional argument: 'db_manager'"

MarkerRetry == "Task queued for retry"
MarkerCancel == "Task cancelled by user"

\* ------------------------------------------------------------ input sets
TaskTypeInputs == {"data_collection", "website_scrape"}
TitleInputs == {"Scrape company website"}
DependsInputs == {{}, {1}}
ProgressInputs == {NoProgress, 25}
AnyProgressInputs == {NoProgress, 25, 150, -5}
StepInputs == {None, "Scraping company website"}
ErrorInputs == {None, "timeout"}
FailInputs == {"timeout"}
ResultInputs == {"company_data"}
ReasonInputs == {"edited"}
StaleHours == {24}
ElapseInputs == {24}

DomainInputs == {"example.com"}

\* tasks: the `tasks` collection, _id -> document
\* logs: the `task_status_logs` collection in insertion order
\* now: datetime.utcnow()
\* last: the service call that returned last, its result and the store and
\*       audit trail it was issued in
\* accepted: per task, the number of status-changing calls that returned a task
\* calls: the calls in flight when two callers use the service at once
\* requests: RateLimiter.requests, per domain the times of the requests recorded
VARIABLES tasks, logs, now, last, accepted, calls, requests

vars == <<tasks, logs, now, last, accepted, calls, requests>>

\* ------------------------------------------------------------ documents
\* Task.__init__ with the keyword arguments create_task passes
\* a new task that loses the predecessors it was given
NewTask_no_depends(session_id, task_type, title, depends_on, t) ==
  [ session_id |-> session_id,
    task_type |-> task_type,
    title |-> title,
    status |-> "pending",
    progress |-> 0,
    current_step |-> "",
    error_message |-> "",
    result_data |-> "{}",
    depends_on |-> {},
    retry_count |-> 0,
    max_retries |-> DefaultMaxRetries,
    started_at |-> NoTime,
    completed_at |-> NoTime,
    created_at |-> t,
    updated_at |-> t ]

NewTask(session_id, task_type, title, depends_on, t) ==
  [ session_id |-> session_id,
    task_type |-> task_type,
    title |-> title,
    status |-> "pending",
    progress |-> 0,
    current_step |-> "",
    error_message |-> "",
    result_data |-> "{}",
    depends_on |-> depends_on,
    retry_count |-> 0,
    max_retries |-> DefaultMaxRetries,
    started_at |-> NoTime,
    completed_at |-> NoTime,
    created_at |-> t,
    updated_at |-> t ]

\* Task.validate without the check of progress
validate_any_progress(task) ==
  IF task.session_id \notin SessionIds THEN ErrSession
  ELSE IF task.title = "" THEN ErrTitle
  ELSE IF task.task_type \notin TaskType THEN ErrTaskType
  ELSE IF task.status \notin TaskStatus THEN ErrStatus
  ELSE OK

\* Task.validate: OK or the message of the ValueError it raises
validate(task) ==
  IF task.session_id \notin SessionIds THEN ErrSession
  ELSE IF task.title = "" THEN ErrTitle
  ELSE IF task.task_type \notin TaskType THEN ErrTaskType
  ELSE IF task.status \notin TaskStatus THEN ErrStatus
  ELSE IF ~(0 <= task.progress /\ task.progress <= 100) THEN ErrProgress
  ELSE OK

\* BaseDocument.save for a document that has an _id: validate, stamp
\* updated_at, replace_one; modified_count > 0 iff the document exists
\* a save that stores updated_at as the instance carries it
save_keeps_updated_at(store, id, task, t) ==
  LET v == validate(task) IN
  IF v # OK THEN [result |-> v, tasks |-> store]
  ELSE IF id \notin DOMAIN store THEN [result |-> SaveFailed, tasks |-> store]
  ELSE [result |-> OK, tasks |-> [store EXCEPT ![id] = task]]

save(store, id, task, t) ==
  LET v == validate(task) IN
  IF v # OK THEN [result |-> v, tasks |-> store]
  ELSE IF id \notin DOMAIN store THEN [result |-> SaveFailed, tasks |-> store]
  ELSE [result |-> OK,
        tasks |-> [store EXCEPT ![id] = [task EXCEPT !.updated_at = t]]]

\* BaseDocument.save for a new document: validate, insert_one, _id assigned
insert(store, task, t) ==
  LET v == validate(task)
      id == Cardinality(DOMAIN store) + 1 IN
  IF v # OK THEN [result |-> v, tasks |-> store, id |-> 0]
  ELSE [result |-> OK,
        tasks |-> [i \in DOMAIN store \cup {id} |->
                     IF i = id THEN [task EXCEPT !.updated_at = t] ELSE store[i]],
        id |-> id]

\* TaskService._log_status_change: one TaskStatusLog inserted
_log_status_change(log, task_id, old_status, new_status, changed_by, reason, t) ==
  Append(log, [ task_id |-> task_id,
                old_status |-> old_status,
                new_status |-> new_status,
                changed_by |-> changed_by,
                change_reason |-> reason,
                timestamp |-> t ])

\* f'Retry attempt {task.retry_count} of {task.max_retries}'
RetryReason(n, m) == "Retry attempt " \o ToString(n) \o " of " \o ToString(m)

Outcome(result, store, log) == [result |-> result, tasks |-> store, logs |-> log]

\* ------------------------------------------- in-memory halves of the calls
\* update_fields with the retry count and the error cleared on marking stale
update_fields_stale_clears(task, new_status, progress, current_step, error_message, t) ==
  LET a == [task EXCEPT !.status = new_status, !.updated_at = t]
      b == IF progress # NoProgress THEN [a EXCEPT !.progress = progress] ELSE a
      c == IF current_step \notin {None, ""}
             THEN [b EXCEPT !.current_step = current_step] ELSE b
      d == IF error_message \notin {None, ""}
             THEN [c EXCEPT !.error_message = error_message] ELSE c
  IN IF new_status = "in_progress" /\ d.started_at = NoTime
       THEN [d EXCEPT !.started_at = t]
     ELSE IF new_status = "completed"
       THEN [d EXCEPT !.completed_at = t, !.progress = 100]
     ELSE IF new_status = "stale"
       THEN [d EXCEPT !.retry_count = 0, !.error_message = ""]
     ELSE d

\* update_fields with started_at written at every entry into in_progress
update_fields_restarts(task, new_status, progress, current_step, error_message, t) ==
  LET a == [task EXCEPT !.status = new_status, !.updated_at = t]
      b == IF progress # NoProgress THEN [a EXCEPT !.progress = progress] ELSE a
      c == IF current_step \notin {None, ""}
             THEN [b EXCEPT !.current_step = current_step] ELSE b
      d == IF error_message \notin {None, ""}
             THEN [c EXCEPT !.error_message = error_message] ELSE c
  IN IF new_status = "in_progress"
       THEN [d EXCEPT !.started_at = t]
     ELSE IF new_status = "completed"
       THEN [d EXCEPT !.completed_at = t, !.progress = 100]
     ELSE d

\* update_task_status between find_by_id and save
update_fields(task, new_status, progress, current_step, error_message, t) ==
  LET a == [task EXCEPT !.status = new_status, !.updated_at = t]
      b == IF progress # NoProgress THEN [a EXCEPT !.progress = progress] ELSE a
      c == IF current_step \notin {None, ""}
             THEN [b EXCEPT !.current_step = current_step] ELSE b
      d == IF error_message \notin {None, ""}
             THEN [c EXCEPT !.error_message = error_message] ELSE c
  IN IF new_status = "in_progress" /\ d.started_at = NoTime
       THEN [d EXCEPT !.started_at = t]
     ELSE IF new_status = "completed"
       THEN [d EXCEPT !.completed_at = t, !.progress = 100]
     ELSE d

\* complete_task between find_by_id and save; progress_percentage is not a
\* field of the stored document, so `progress` is left as it was
complete_fields(task, result_data, t) ==
  [task EXCEPT !.status = "completed", !.completed_at = t, !.result_data = result_data]

\* fail_task between find_by_id and save
fail_fields(task, error_message, t) ==
  [task EXCEPT !.status = "failed", !.error_message = error_message, !.updated_at = t]

\* retry_check with the limit compared by > instead of >=
retry_check_off_by_one(task) ==
  IF task.status # "failed" THEN ErrOnlyFailed
  ELSE IF task.retry_count > task.max_retries THEN ErrMaxRetry
  ELSE OK

\* retry_check with the limit tested before the status
retry_check_limit_first(task) ==
  IF task.retry_count >= task.max_retries THEN ErrMaxRetry
  ELSE IF task.status # "failed" THEN ErrOnlyFailed
  ELSE OK

\* retry_task: the precondition checks, OK or the ValueError message
retry_check(task) ==
  IF task.status # "failed" THEN ErrOnlyFailed
  ELSE IF task.retry_count >= task.max_retries THEN ErrMaxRetry
  ELSE OK

\* retry_fields without the reset of progress
retry_fields_keeps_progress(task, t) ==
  [task EXCEPT !.retry_count = @ + 1, !.status = "pending", !.error_message = None,
               !.current_step = MarkerRetry, !.updated_at = t]

\* retry_fields without the clearing of error_message
retry_fields_keeps_error(task, t) ==
  [task EXCEPT !.retry_count = @ + 1, !.status = "pending",
               !.progress = 0, !.current_step = MarkerRetry, !.updated_at = t]

\* retry_task between the checks and save
retry_fields(task, t) ==
  [task EXCEPT !.retry_count = @ + 1, !.status = "pending", !.error_message = None,
               !.progress = 0, !.current_step = MarkerRetry, !.updated_at = t]

\* cancel_check refusing only the finished statuses
cancel_check_unfinished(task) ==
  IF task.status \in {"completed", "cancelled"} THEN ErrOnlyActive ELSE OK

\* cancel_task: the precondition check
cancel_check(task) ==
  IF task.status \notin {"pending", "in_progress"} THEN ErrOnlyActive ELSE OK

\* cancel_task between the check and save
cancel_fields(task, t) ==
  [task EXCEPT !.status = "cancelled", !.current_step = MarkerCancel, !.updated_at = t]

\* ------------------------------------------------------------ dependencies
\* _dependencies_satisfied with a predecessor that is not found counted as
\* satisfied
_dependencies_satisfied_missing_ok(store, task) ==
  IF task.depends_on = {} THEN TRUE
  ELSE \A dep_id \in task.depends_on :
         dep_id \notin DOMAIN store \/ store[dep_id].status = "completed"

\* _dependencies_satisfied with every predecessor that is no longer running
\* counted as satisfied
_dependencies_satisfied_any_end(store, task) ==
  IF task.depends_on = {} THEN TRUE
  ELSE \A dep_id \in task.depends_on :
         dep_id \in DOMAIN store /\ store[dep_id].status \notin {"pending", "in_progress"}

\* TaskService._dependencies_satisfied: Task.find_by_id answers None for an
\* id it does not find and for one it cannot look up
_dependencies_satisfied(store, task) ==
  IF task.depends_on = {} THEN TRUE
  ELSE \A dep_id \in task.depends_on :
         dep_id \in DOMAIN store /\ store[dep_id].status = "completed"

\* Task.find_by_session_and_status
find_by_session_and_status(store, session_id, status) ==
  {i \in DOMAIN store : store[i].session_id = session_id /\ store[i].status = status}

\* Task.find_dependent_tasks
find_dependent_tasks(store, task_id) ==
  {i \in DOMAIN store : task_id \in store[i].depends_on}

\* TaskService.get_ready_tasks
get_ready_tasks(store, session_id) ==
  {i \in find_by_session_and_status(store, session_id, "pending") :
     _dependencies_satisfied(store, store[i])}

\* TaskService._check_dependent_tasks: the method has no return statement;
\* for each dependent that is pending with its dependencies satisfied it
\* writes "Task ... is now ready to start" to the application log
_check_dependent_tasks(store, completed_task_id) ==
  [ result |-> None,
    announced |-> {i \in find_dependent_tasks(store, completed_task_id) :
                     store[i].status = "pending" /\ _dependencies_satisfied(store, store[i])} ]

\* ------------------------------------------------------------- staleness
\* BaseDocument.to_dict, through to_mongo: a datetime goes to the collection
\* as its isoformat() string
isoformat(t) == [bson |-> "string", value |-> t]

\* a datetime handed to a query as it is
datetime(t) == [bson |-> "date", value |-> t]

\* {'$lt': query} of a find: a stored value matches when it is of the query
\* value's BSON type and smaller
lt(stored, query) == stored.bson = query.bson /\ stored.value < query.value

\* Task.find_stale_tasks
find_stale_tasks(store, stale_threshold) ==
  {i \in DOMAIN store :
     /\ store[i].status \in {"pending", "in_progress"}
     /\ lt(isoformat(store[i].updated_at), stale_threshold)}

\* TaskService.get_stale_tasks
get_stale_tasks(store, hours, t) == find_stale_tasks(store, datetime(t - hours))

\* ------------------------------------------------------ session reports
\* Task.find_by_session
find_by_session(store, session_id) ==
  {i \in DOMAIN store : store[i].session_id = session_id}

\* StatusService.get_session_dashboard: its first statement is
\* ResearchSession.find_by_id(session_id), and BaseDocument.find_by_id takes
\* (doc_id, db_manager): the call raises TypeError before any task is read
get_session_dashboard(store, session_id) ==
  [raised |-> ErrMissingArgument, progress |-> None]

\* ResearchService._calculate_progress on the tasks of a session; the
\* percentage (completed / total) * 100 is kept to its whole part
_calculate_progress(store, ids) ==
  IF ids = {}
    THEN [percentage |-> 0, completed_tasks |-> 0, total_tasks |-> 0, status |-> "no_tasks"]
  ELSE LET completed == Cardinality({i \in ids : store[i].status = "completed"})
           failed == Cardinality({i \in ids : store[i].status = "failed"})
           in_progress == Cardinality({i \in ids : store[i].status = "in_progress"})
           total == Cardinality(ids)
       IN [percentage |-> (completed * 100) \div total,
           completed_tasks |-> completed,
           total_tasks |-> total,
           status |-> IF completed = total THEN "completed"
                      ELSE IF failed > 0 THEN "failed"
                      ELSE IF in_progress > 0 THEN "in_progress" ELSE "pending"]

\* ResearchService.get_session_status: the progress part of what it returns
get_session_status(store, session_id) ==
  [raised |-> None, progress |-> _calculate_progress(store, find_by_session(store, session_id))]

\* get_session_dashboard, "Categorize tasks by status": each category holds
\* the places in the task list of the tasks that fall in it
task_categories(statuses) ==
  [ waiting_system |-> {i \in DOMAIN statuses : statuses[i] = "in_progress"},
    waiting_user |-> {i \in DOMAIN statuses : statuses[i] = "waiting_user"},
    completed |-> {i \in DOMAIN statuses : statuses[i] = "completed"},
    failed |-> {i \in DOMAIN statuses : statuses[i] = "failed"},
    pending |-> {i \in DOMAIN statuses : statuses[i] = "pending"} ]

\* _calculate_overall_status with running tasks looked at before failed ones
_calculate_overall_status_running_first(categories) ==
  IF categories.waiting_system # {} THEN "in_progress"
  ELSE IF categories.failed # {} THEN "has_failures"
  ELSE IF categories.waiting_user # {} THEN "waiting_user"
  ELSE IF categories.pending # {} THEN "pending"
  ELSE "completed"

\* StatusService._calculate_overall_status
_calculate_overall_status(categories) ==
  IF categories.failed # {} THEN "has_failures"
  ELSE IF categories.waiting_user # {} THEN "waiting_user"
  ELSE IF categories.waiting_system # {} THEN "in_progress"
  ELSE IF categories.pending # {} THEN "pending"
  ELSE "completed"

\* ------------------------------------------------------- service methods
create_task(store, log, session_id, task_type, title, depends_on, t) ==
  LET s == insert(store, NewTask(session_id, task_type, title, depends_on, t), t) IN
  IF s.result # OK THEN Outcome(s.result, store, log)
  ELSE Outcome(OK, s.tasks,
               _log_status_change(log, s.id, None, "pending", "system", "Task created", t))

update_task_status(store, log, task_id, new_status, progress, current_step, error_message, t) ==
  IF task_id \notin DOMAIN store THEN Outcome(ErrNotFound, store, log)
  ELSE LET old_status == store[task_id].status
           task == update_fields(store[task_id], new_status, progress,
                                 current_step, error_message, t)
           s == save(store, task_id, task, t)
       IN IF s.result # OK THEN Outcome(s.result, store, log)
          ELSE Outcome(OK, s.tasks,
                 _log_status_change(log, task_id, old_status, new_status, "system", None, t))

\* complete_task without its audit entry
complete_task_unlogged(store, log, task_id, result_data, t) ==
  IF task_id \notin DOMAIN store THEN Outcome(ErrNotFound, store, log)
  ELSE LET task == complete_fields(store[task_id], result_data, t)
           s == save(store, task_id, task, t)
       IN IF s.result \notin {OK, SaveFailed} THEN Outcome(s.result, store, log)
          ELSE Outcome(OK, s.tasks, log)

complete_task(store, log, task_id, result_data, t) ==
  IF task_id \notin DOMAIN store THEN Outcome(ErrNotFound, store, log)
  ELSE LET task == complete_fields(store[task_id], result_data, t)
           s == save(store, task_id, task, t)
       IN IF s.result \notin {OK, SaveFailed} THEN Outcome(s.result, store, log)
          ELSE Outcome(OK, s.tasks,
                 _log_status_change(log, task_id, task.status, "completed", "system", None, t))

fail_task(store, log, task_id, error_message, t) ==
  IF task_id \notin DOMAIN store THEN Outcome(ErrNotFound, store, log)
  ELSE LET old_status == store[task_id].status
           task == fail_fields(store[task_id], error_message, t)
           s == save(store, task_id, task, t)
       IN IF s.result # OK THEN Outcome(s.result, store, log)
          ELSE Outcome(OK, s.tasks,
                 _log_status_change(log, task_id, old_status, "failed", "system",
                                    error_message, t))

retry_task(store, log, task_id, t) ==
  IF task_id \notin DOMAIN store THEN Outcome(ErrNotFound, store, log)
  ELSE IF retry_check(store[task_id]) # OK
    THEN Outcome(retry_check(store[task_id]), store, log)
  ELSE LET old_status == store[task_id].status
           task == retry_fields(store[task_id], t)
           s == save(store, task_id, task, t)
       IN IF s.result # OK THEN Outcome(s.result, store, log)
          ELSE Outcome(OK, s.tasks,
                 _log_status_change(log, task_id, old_status, "pending", "system",
                                    RetryReason(task.retry_count, task.max_retries), t))

cancel_task(store, log, task_id, t) ==
  IF task_id \notin DOMAIN store THEN Outcome(ErrNotFound, store, log)
  ELSE IF cancel_check(store[task_id]) # OK
    THEN Outcome(cancel_check(store[task_id]), store, log)
  ELSE LET old_status == store[task_id].status
           task == cancel_fields(store[task_id], t)
           s == save(store, task_id, task, t)
       IN IF s.result # OK THEN Outcome(s.result, store, log)
          ELSE Outcome(OK, s.tasks,
                 _log_status_change(log, task_id, old_status, "cancelled", "system",
                                    MarkerCancel, t))

\* ------------------------------------------------------------------ state
Callers == {1, 2}

NoCall == [op |-> "none", task_id |-> 0, new_status |-> None, result |-> OK,
           tasks |-> << >>, logs |-> << >>]

Idle == [pc |-> "idle", op |-> "none", task_id |-> 0, new_status |-> None,
         progress |-> NoProgress, arg |-> None, old_status |-> None,
         reason |-> None, local |-> {}, result |-> None]

Init ==
  /\ tasks = << >>
  /\ logs = << >>
  /\ now = 0
  /\ last = NoCall
  /\ accepted = [i \in TaskIds |-> 0]
  /\ calls = [c \in Callers |-> Idle]
  /\ requests = [d \in DomainInputs |-> << >>]

AllIdle == \A c \in Callers : calls[c].pc = "idle"

\* a call made while no other call is in flight returns: the store and the
\* audit trail take the outcome, `last` keeps the call, its result and the
\* state it was issued in; datetime.utcnow() is later at every write than at
\* the write before
Return(bound, op, task_id, new_status, out) ==
  /\ AllIdle
  /\ Len(logs) < bound
  /\ tasks' = out.tasks
  /\ logs' = out.logs
  /\ last' = [op |-> op, task_id |-> task_id, new_status |-> new_status,
              result |-> out.result, tasks |-> tasks, logs |-> logs]
  /\ now' = IF out.tasks # tasks THEN now + 1 ELSE now
  /\ accepted' = IF out.result = OK /\ task_id \in TaskIds
                   THEN [accepted EXCEPT ![task_id] = @ + 1] ELSE accepted
  /\ UNCHANGED <<calls, requests>>

CreateTask(bound, ids) ==
  /\ Cardinality(DOMAIN tasks) + 1 \in ids
  /\ \E s \in SessionIds, ty \in TaskTypeInputs, ti \in TitleInputs, d \in DependsInputs :
       Return(bound, "create_task", Cardinality(DOMAIN tasks) + 1, "pending",
              create_task(tasks, logs, s, ty, ti, d, now))

UpdateTaskStatus(bound, ids, statuses, progresses, steps, errors) ==
  \E id \in ids, st \in statuses, p \in progresses, cs \in steps, em \in errors :
    Return(bound, "update_task_status", id, st,
           update_task_status(tasks, logs, id, st, p, cs, em, now))

CompleteTask(bound, ids) ==
  \E id \in ids, rd \in ResultInputs :
    Return(bound, "complete_task", id, "completed",
           complete_task(tasks, logs, id, rd, now))

FailTask(bound, ids) ==
  \E id \in ids, em \in FailInputs :
    Return(bound, "fail_task", id, "failed", fail_task(tasks, logs, id, em, now))

RetryTask(bound, ids) ==
  \E id \in ids :
    Return(bound, "retry_task", id, "pending", retry_task(tasks, logs, id, now))

CancelTask(bound, ids) ==
  \E id \in ids :
    Return(bound, "cancel_task", id, "cancelled", cancel_task(tasks, logs, id, now))

Next ==
  \/ CreateTask(MaxLog, TaskIds)
  \/ UpdateTaskStatus(MaxLog, TaskIds, valid_statuses, ProgressInputs, StepInputs, ErrorInputs)
  \/ CompleteTask(MaxLog, TaskIds)
  \/ FailTask(MaxLog, TaskIds)
  \/ RetryTask(MaxLog, TaskIds)
  \/ CancelTask(MaxLog, TaskIds)

Spec == Init /\ [][Next]_vars

\* One task driven by a worker and a user through repeated failure and retry:
\* the worker's in_progress update (scrape_company_website) and its
\* fail_task, the user's retry, cancel and complete.
RetryIds == {1}
WorkerStatus == {"in_progress"}
WorkerProgress == {25}

NextRetry ==
  \/ CreateTask(MaxRetryLog, RetryIds)
  \/ UpdateTaskStatus(MaxRetryLog, RetryIds, WorkerStatus, WorkerProgress, {None}, {None})
  \/ CompleteTask(MaxRetryLog, RetryIds)
  \/ FailTask(MaxRetryLog, RetryIds)
  \/ RetryTask(MaxRetryLog, RetryIds)
  \/ CancelTask(MaxRetryLog, RetryIds)

SpecRetry == Init /\ [][NextRetry]_vars

\* ---------------------------------------------------- two callers at once
\* Request handlers and workers share the store with no lock and no version
\* check: a call is find_by_id and the in-memory changes, then Task.save
\* (replace_one of the whole document), then the audit insert, and the steps
\* of two calls interleave.

\* find_by_id, the precondition checks and the in-memory changes of a call;
\* the first call to start records the state both were issued in
Begin(c, op, id, new_status, progress, arg, check, task, old_status, reason) ==
  /\ calls[c].pc = "idle"
  /\ calls' = [calls EXCEPT ![c] =
       IF check # OK
         THEN [Idle EXCEPT !.pc = "done", !.op = op, !.task_id = id,
                           !.new_status = new_status, !.progress = progress,
                           !.arg = arg, !.result = check]
         ELSE [pc |-> "save", op |-> op, task_id |-> id, new_status |-> new_status,
               progress |-> progress, arg |-> arg, old_status |-> old_status,
               reason |-> reason, local |-> {task}, result |-> None]]
  /\ last' = IF AllIdle
               THEN [op |-> "concurrent", task_id |-> id, new_status |-> None,
                     result |-> OK, tasks |-> tasks, logs |-> logs]
               ELSE last
  /\ UNCHANGED <<tasks, logs, now, accepted, requests>>

BeginUpdate(c) ==
  \E id \in DOMAIN tasks, st \in WorkerStatus, p \in WorkerProgress :
    Begin(c, "update_task_status", id, st, p, None, OK,
          update_fields(tasks[id], st, p, None, None, now), tasks[id].status, None)

BeginComplete(c) ==
  \E id \in DOMAIN tasks, rd \in ResultInputs :
    Begin(c, "complete_task", id, "completed", NoProgress, rd, OK,
          complete_fields(tasks[id], rd, now),
          complete_fields(tasks[id], rd, now).status, None)

BeginFail(c) ==
  \E id \in DOMAIN tasks, em \in FailInputs :
    Begin(c, "fail_task", id, "failed", NoProgress, em, OK,
          fail_fields(tasks[id], em, now), tasks[id].status, em)

BeginRetry(c) ==
  \E id \in DOMAIN tasks :
    Begin(c, "retry_task", id, "pending", NoProgress, None, retry_check(tasks[id]),
          retry_fields(tasks[id], now), tasks[id].status,
          RetryReason(retry_fields(tasks[id], now).retry_count,
                      retry_fields(tasks[id], now).max_retries))

BeginCancel(c) ==
  \E id \in DOMAIN tasks :
    Begin(c, "cancel_task", id, "cancelled", NoProgress, None, cancel_check(tasks[id]),
          cancel_fields(tasks[id], now), tasks[id].status, MarkerCancel)

\* task.save(current_app.db): complete_task ignores what save returns, the
\* other methods return None when it returns False
SaveStep(c) ==
  /\ calls[c].pc = "save"
  /\ \E task \in calls[c].local :
       LET s == save(tasks, calls[c].task_id, task, now) IN
       /\ tasks' = s.tasks
       /\ now' = IF s.result = OK THEN now + 1 ELSE now
       /\ calls' = [calls EXCEPT ![c] =
            IF s.result = OK \/ (s.result = SaveFailed /\ calls[c].op = "complete_task")
              THEN [@ EXCEPT !.pc = "log"]
              ELSE [@ EXCEPT !.pc = "done", !.result = s.result]]
  /\ UNCHANGED <<logs, last, accepted, requests>>

\* self._log_status_change(...) and the return of the task
LogStep(c) ==
  /\ calls[c].pc = "log"
  /\ logs' = _log_status_change(logs, calls[c].task_id, calls[c].old_status,
                                calls[c].new_status, "system", calls[c].reason, now)
  /\ calls' = [calls EXCEPT ![c] = [@ EXCEPT !.pc = "done", !.result = OK]]
  /\ accepted' = [accepted EXCEPT ![calls[c].task_id] = @ + 1]
  /\ UNCHANGED <<tasks, now, last, requests>>

NextRace ==
  \/ CreateTask(MaxRaceLog, RetryIds)
  \/ UpdateTaskStatus(MaxRaceLog, RetryIds, WorkerStatus, WorkerProgress, {None}, {None})
  \/ FailTask(MaxRaceLog, RetryIds)
  \/ \E c \in Callers :
       \/ BeginUpdate(c)
       \/ BeginComplete(c)
       \/ BeginFail(c)
       \/ BeginRetry(c)
       \/ BeginCancel(c)
       \/ SaveStep(c)
       \/ LogStep(c)

SpecRace == Init /\ [][NextRace]_vars

\* ------------------------------------------------ the audit insert fails
\* _log_status_change when TaskStatusLog.save returns False or raises: the
\* error is logged and swallowed, nothing is inserted and the caller goes on
\* to return what it returns when the insert succeeds
_log_status_change_failed(out, log) == [out EXCEPT !.logs = log]

\* a call that reaches its audit insert, and the insert fails; every write
\* adds one to the clock and every successful audit insert one entry, so
\* now - Len(logs) is the number of inserts that have failed
ReturnAuditFailed(bound, faults, op, task_id, new_status, out) ==
  /\ now - Len(logs) < faults
  /\ out.logs # logs
  /\ Return(bound, op, task_id, new_status, _log_status_change_failed(out, logs))

CreateTaskAuditFailed(bound, faults, ids) ==
  /\ Cardinality(DOMAIN tasks) + 1 \in ids
  /\ \E s \in SessionIds, ty \in TaskTypeInputs, ti \in TitleInputs, d \in DependsInputs :
       ReturnAuditFailed(bound, faults, "create_task", Cardinality(DOMAIN tasks) + 1,
                         "pending", create_task(tasks, logs, s, ty, ti, d, now))

UpdateTaskStatusAuditFailed(bound, faults, ids, statuses, progresses) ==
  \E id \in ids, st \in statuses, p \in progresses :
    ReturnAuditFailed(bound, faults, "update_task_status", id, st,
                      update_task_status(tasks, logs, id, st, p, None, None, now))

CompleteTaskAuditFailed(bound, faults, ids) ==
  \E id \in ids, rd \in ResultInputs :
    ReturnAuditFailed(bound, faults, "complete_task", id, "completed",
                      complete_task(tasks, logs, id, rd, now))

FailTaskAuditFailed(bound, faults, ids) ==
  \E id \in ids, em \in FailInputs :
    ReturnAuditFailed(bound, faults, "fail_task", id, "failed",
                      fail_task(tasks, logs, id, em, now))

RetryTaskAuditFailed(bound, faults, ids) ==
  \E id \in ids :
    ReturnAuditFailed(bound, faults, "retry_task", id, "pending",
                      retry_task(tasks, logs, id, now))

CancelTaskAuditFailed(bound, faults, ids) ==
  \E id \in ids :
    ReturnAuditFailed(bound, faults, "cancel_task", id, "cancelled",
                      cancel_task(tasks, logs, id, now))

NextFault ==
  \/ CreateTask(MaxLog, RetryIds)
  \/ UpdateTaskStatus(MaxLog, RetryIds, WorkerStatus, WorkerProgress, {None}, {None})
  \/ CompleteTask(MaxLog, RetryIds)
  \/ FailTask(MaxLog, RetryIds)
  \/ RetryTask(MaxLog, RetryIds)
  \/ CancelTask(MaxLog, RetryIds)
  \/ CreateTaskAuditFailed(MaxLog, MaxFaults, RetryIds)
  \/ UpdateTaskStatusAuditFailed(MaxLog, MaxFaults, RetryIds, WorkerStatus, WorkerProgress)
  \/ CompleteTaskAuditFailed(MaxLog, MaxFaults, RetryIds)
  \/ FailTaskAuditFailed(MaxLog, MaxFaults, RetryIds)
  \/ RetryTaskAuditFailed(MaxLog, MaxFaults, RetryIds)
  \/ CancelTaskAuditFailed(MaxLog, MaxFaults, RetryIds)

SpecFault == Init /\ [][NextFault]_vars

\* --------------------------------- what a TaskStatusLog lets its holder do
\* An entry read back by find_by_task_id or find_recent_changes carries its
\* _id, and TaskStatusLog inherits save and delete from BaseDocument
\* unchanged.

\* BaseDocument.save on an entry that has an _id: replace_one of the stored
\* entry by the instance's fields
LogEntrySave ==
  /\ AllIdle
  /\ \E i \in DOMAIN logs, r \in ReasonInputs :
       /\ logs' = [logs EXCEPT ![i].change_reason = r]
       /\ last' = [op |-> "TaskStatusLog.save", task_id |-> logs[i].task_id,
                   new_status |-> None, result |-> OK, tasks |-> tasks, logs |-> logs]
  /\ UNCHANGED <<tasks, now, accepted, calls, requests>>

\* BaseDocument.delete on an entry that has an _id: delete_one; every write
\* of a task adds one to the clock and one entry, so now - Len(logs) is the
\* number of entries deleted
LogEntryDelete(deletes) ==
  /\ AllIdle
  /\ now - Len(logs) < deletes
  /\ \E i \in DOMAIN logs :
       /\ logs' = SubSeq(logs, 1, i - 1) \o SubSeq(logs, i + 1, Len(logs))
       /\ last' = [op |-> "TaskStatusLog.delete", task_id |-> logs[i].task_id,
                   new_status |-> None, result |-> OK, tasks |-> tasks, logs |-> logs]
  /\ UNCHANGED <<tasks, now, accepted, calls, requests>>

NextAudit ==
  \/ CreateTask(MaxLog, RetryIds)
  \/ UpdateTaskStatus(MaxLog, RetryIds, WorkerStatus, WorkerProgress, {None}, {None})
  \/ CompleteTask(MaxLog, RetryIds)
  \/ FailTask(MaxLog, RetryIds)
  \/ RetryTask(MaxLog, RetryIds)
  \/ CancelTask(MaxLog, RetryIds)
  \/ LogEntrySave
  \/ LogEntryDelete(MaxDeletes)

SpecAudit == Init /\ [][NextAudit]_vars

\* ------------------------------------------------ tasks that wait for tasks
\* A session whose tasks name earlier tasks, or an id that resolves to no
\* task, in depends_on; a worker starts, completes and fails them, a user
\* cancels them, and the scheduler asks which are ready.
DependsOnInputs == {d \in SUBSET (DOMAIN tasks \cup {UnknownId}) : Cardinality(d) <= 2}
DepsStatus == {"in_progress", "completed"}

CreateDependentTask(bound, ids) ==
  /\ Cardinality(DOMAIN tasks) + 1 \in ids
  /\ \E s \in SessionIds, ti \in TitleInputs, d \in DependsOnInputs :
       Return(bound, "create_task", Cardinality(DOMAIN tasks) + 1, "pending",
              create_task(tasks, logs, s, "data_collection", ti, d, now))

\* get_ready_tasks(session_id): a read; `last` keeps the list it returned
GetReadyTasks ==
  /\ AllIdle
  /\ \E s \in SessionIds :
       last' = [op |-> "get_ready_tasks", task_id |-> 0, new_status |-> None,
                result |-> get_ready_tasks(tasks, s), tasks |-> tasks, logs |-> logs]
  /\ UNCHANGED <<tasks, logs, now, accepted, calls, requests>>

NextDeps ==
  \/ CreateDependentTask(MaxDepsLog, TaskIds)
  \/ UpdateTaskStatus(MaxDepsLog, TaskIds, DepsStatus, {NoProgress}, {None}, {None})
  \/ CompleteTask(MaxDepsLog, TaskIds)
  \/ FailTask(MaxDepsLog, TaskIds)
  \/ CancelTask(MaxDepsLog, TaskIds)
  \/ GetReadyTasks

SpecDeps == Init /\ [][NextDeps]_vars

\* ------------------------------------------------------ time goes by
\* One task, hours passing between the calls, and the stale-task listing of
\* GET /stale.
Elapse(bound) ==
  /\ AllIdle
  /\ \E h \in ElapseInputs :
       /\ now + h <= bound
       /\ now' = now + h
  /\ UNCHANGED <<tasks, logs, last, accepted, calls, requests>>

\* get_stale_tasks(hours): a read; `last` keeps the list it returned
GetStaleTasks ==
  /\ AllIdle
  /\ \E h \in StaleHours :
       last' = [op |-> "get_stale_tasks", task_id |-> 0, new_status |-> None,
                result |-> get_stale_tasks(tasks, h, now), tasks |-> tasks,
                logs |-> logs, hours |-> h]
  /\ UNCHANGED <<tasks, logs, now, accepted, calls, requests>>

NextStale ==
  \/ CreateTask(MaxLog, RetryIds)
  \/ UpdateTaskStatus(MaxLog, RetryIds, WorkerStatus, WorkerProgress, {None}, {None})
  \/ CompleteTask(MaxLog, RetryIds)
  \/ Elapse(MaxClock)
  \/ GetStaleTasks

SpecStale == Init /\ [][NextStale]_vars

\* ------------------------------------------------- reports on a session
\* The tasks of a session created and moved through their statuses, and the
\* two reports on the session: the dashboard of StatusService and the status
\* of ResearchService.
ReportStatus == {"in_progress", "completed", "failed"}

GetSessionDashboard ==
  /\ AllIdle
  /\ \E s \in SessionIds :
       last' = [op |-> "get_session_dashboard", task_id |-> 0, new_status |-> None,
                result |-> get_session_dashboard(tasks, s), tasks |-> tasks, logs |-> logs]
  /\ UNCHANGED <<tasks, logs, now, accepted, calls, requests>>

GetSessionStatus ==
  /\ AllIdle
  /\ \E s \in SessionIds :
       last' = [op |-> "get_session_status", task_id |-> 0, new_status |-> None,
                result |-> get_session_status(tasks, s), tasks |-> tasks, logs |-> logs]
  /\ UNCHANGED <<tasks, logs, now, accepted, calls, requests>>

\* the task lists _calculate_overall_status may be given, by their statuses:
\* the five statuses the categories are made of and one that falls in none
ListStatus == {"pending", "in_progress", "waiting_user", "completed", "failed", "cancelled"}
StatusLists == UNION {[1..n -> ListStatus] : n \in 0..MaxList}

\* _calculate_overall_status(task_categories) on the categories of a task
\* list; `last` keeps the list and the status returned
CalculateOverallStatus ==
  /\ AllIdle
  /\ \E statuses \in StatusLists :
       last' = [op |-> "_calculate_overall_status", task_id |-> 0, new_status |-> None,
                result |-> _calculate_overall_status(task_categories(statuses)),
                tasks |-> tasks, logs |-> logs, statuses |-> statuses]
  /\ UNCHANGED <<tasks, logs, now, accepted, calls, requests>>

NextDashboard ==
  \/ CreateTask(MaxLog, TaskIds)
  \/ UpdateTaskStatus(MaxLog, TaskIds, ReportStatus, {NoProgress}, {None}, {None})
  \/ GetSessionDashboard
  \/ GetSessionStatus

SpecDashboard == Init /\ [][NextDashboard]_vars

NextOverall == CalculateOverallStatus

SpecOverall == Init /\ [][NextOverall]_vars

\* ------------------------------------------------ any progress reported
\* Tasks whose workers report progress figures inside and outside 0..100.
ProgressStatus == {"in_progress", "completed"}

NextProgress ==
  \/ CreateTask(MaxLog, TaskIds)
  \/ UpdateTaskStatus(MaxLog, TaskIds, ProgressStatus, AnyProgressInputs, {None}, {None})
  \/ CompleteTask(MaxLog, TaskIds)
  \/ FailTask(MaxLog, TaskIds)
  \/ RetryTask(MaxLog, TaskIds)
  \/ CancelTask(MaxLog, TaskIds)

SpecProgress == Init /\ [][NextProgress]_vars

\* ------------------------------------------------------ the stale flag
\* One task that fails and is retried, is marked stale by a status update
\* that carries nothing but the status, and is picked up again.
FlagStatus == {"in_progress", "pending", "stale"}

NextFlag ==
  \/ CreateTask(MaxFlagLog, RetryIds)
  \/ UpdateTaskStatus(MaxFlagLog, RetryIds, FlagStatus, {NoProgress}, {None}, {None})
  \/ FailTask(MaxFlagLog, RetryIds)
  \/ RetryTask(MaxFlagLog, RetryIds)

SpecFlag == Init /\ [][NextFlag]_vars

\* ------------------------------------------------- retries used up
\* One task failed and retried until retry_count reaches max_retries, and
\* the status update test_task_retry makes on it: pending, progress 0, the
\* retry marker as current_step.
NextExhausted ==
  \/ CreateTask(MaxRetryLog, RetryIds)
  \/ UpdateTaskStatus(MaxRetryLog, RetryIds, {"pending"}, {0}, {MarkerRetry}, {None})
  \/ FailTask(MaxRetryLog, RetryIds)
  \/ RetryTask(MaxRetryLog, RetryIds)

SpecExhausted == Init /\ [][NextExhausted]_vars

\* --------------------------------------------- the task write fails
\* BaseDocument.save when replace_one writes nothing: it reports
\* modified_count = 0 and save returns False, or it raises and the exception
\* leaves save
ErrWrite == "replace_one raised"
WriteFaults == {SaveFailed, ErrWrite}

save_unwritten(store, id, task, t, how) ==
  LET v == validate(task) IN
  IF v # OK THEN [result |-> v, tasks |-> store]
  ELSE [result |-> how, tasks |-> store]

\* the four methods that test what save returns, on a store whose write
\* fails: a False is logged and answered with None, an exception passes
\* through, and the audit insert is not reached either way
update_task_status_unwritten(store, log, task_id, new_status, progress, current_step, error_message, t, how) ==
  IF task_id \notin DOMAIN store THEN Outcome(ErrNotFound, store, log)
  ELSE LET old_status == store[task_id].status
           task == update_fields(store[task_id], new_status, progress,
                                 current_step, error_message, t)
           s == save_unwritten(store, task_id, task, t, how)
       IN IF s.result # OK THEN Outcome(s.result, store, log)
          ELSE Outcome(OK, s.tasks,
                 _log_status_change(log, task_id, old_status, new_status, "system", None, t))

\* fail_task going on after the save as complete_task does
fail_task_unwritten_logged(store, log, task_id, error_message, t, how) ==
  IF task_id \notin DOMAIN store THEN Outcome(ErrNotFound, store, log)
  ELSE LET old_status == store[task_id].status
           task == fail_fields(store[task_id], error_message, t)
           s == save_unwritten(store, task_id, task, t, how)
       IN IF s.result \notin {OK, SaveFailed} THEN Outcome(s.result, store, log)
          ELSE Outcome(OK, s.tasks,
                 _log_status_change(log, task_id, old_status, "failed", "system",
                                    error_message, t))

fail_task_unwritten(store, log, task_id, error_message, t, how) ==
  IF task_id \notin DOMAIN store THEN Outcome(ErrNotFound, store, log)
  ELSE LET old_status == store[task_id].status
           task == fail_fields(store[task_id], error_message, t)
           s == save_unwritten(store, task_id, task, t, how)
       IN IF s.result # OK THEN Outcome(s.result, store, log)
          ELSE Outcome(OK, s.tasks,
                 _log_status_change(log, task_id, old_status, "failed", "system",
                                    error_message, t))

retry_task_unwritten(store, log, task_id, t, how) ==
  IF task_id \notin DOMAIN store THEN Outcome(ErrNotFound, store, log)
  ELSE IF retry_check(store[task_id]) # OK
    THEN Outcome(retry_check(store[task_id]), store, log)
  ELSE LET old_status == store[task_id].status
           task == retry_fields(store[task_id], t)
           s == save_unwritten(store, task_id, task, t, how)
       IN IF s.result # OK THEN Outcome(s.result, store, log)
          ELSE Outcome(OK, s.tasks,
                 _log_status_change(log, task_id, old_status, "pending", "system",
                                    RetryReason(task.retry_count, task.max_retries), t))

cancel_task_unwritten(store, log, task_id, t, how) ==
  IF task_id \notin DOMAIN store THEN Outcome(ErrNotFound, store, log)
  ELSE IF cancel_check(store[task_id]) # OK
    THEN Outcome(cancel_check(store[task_id]), store, log)
  ELSE LET old_status == store[task_id].status
           task == cancel_fields(store[task_id], t)
           s == save_unwritten(store, task_id, task, t, how)
       IN IF s.result # OK THEN Outcome(s.result, store, log)
          ELSE Outcome(OK, s.tasks,
                 _log_status_change(log, task_id, old_status, "cancelled", "system",
                                    MarkerCancel, t))

\* a call that reaches its task write, and the write fails; `last` keeps,
\* besides what Return keeps, the way the write failed
ReturnWriteFailed(op, task_id, new_status, how, reached, out) ==
  /\ AllIdle
  /\ reached.result = OK
  /\ tasks' = out.tasks
  /\ logs' = out.logs
  /\ last' = [op |-> op, task_id |-> task_id, new_status |-> new_status,
              result |-> out.result, tasks |-> tasks, logs |-> logs,
              write |-> how]
  /\ now' = IF out.tasks # tasks THEN now + 1 ELSE now
  /\ UNCHANGED <<accepted, calls, requests>>

UpdateTaskStatusWriteFailed(ids, statuses, progresses) ==
  \E id \in ids, st \in statuses, p \in progresses, how \in WriteFaults :
    ReturnWriteFailed("update_task_status", id, st, how,
      update_task_status(tasks, logs, id, st, p, None, None, now),
      update_task_status_unwritten(tasks, logs, id, st, p, None, None, now, how))

FailTaskWriteFailed(ids) ==
  \E id \in ids, em \in FailInputs, how \in WriteFaults :
    ReturnWriteFailed("fail_task", id, "failed", how,
      fail_task(tasks, logs, id, em, now),
      fail_task_unwritten(tasks, logs, id, em, now, how))

RetryTaskWriteFailed(ids) ==
  \E id \in ids, how \in WriteFaults :
    ReturnWriteFailed("retry_task", id, "pending", how,
      retry_task(tasks, logs, id, now),
      retry_task_unwritten(tasks, logs, id, now, how))

CancelTaskWriteFailed(ids) ==
  \E id \in ids, how \in WriteFaults :
    ReturnWriteFailed("cancel_task", id, "cancelled", how,
      cancel_task(tasks, logs, id, now),
      cancel_task_unwritten(tasks, logs, id, now, how))

NextWrite ==
  \/ CreateTask(MaxLog, TaskIds)
  \/ UpdateTaskStatus(MaxLog, TaskIds, WorkerStatus, WorkerProgress, {None}, {None})
  \/ FailTask(MaxLog, TaskIds)
  \/ RetryTask(MaxLog, TaskIds)
  \/ CancelTask(MaxLog, TaskIds)
  \/ UpdateTaskStatusWriteFailed(TaskIds, WorkerStatus, WorkerProgress)
  \/ FailTaskWriteFailed(TaskIds)
  \/ RetryTaskWriteFailed(TaskIds)
  \/ CancelTaskWriteFailed(TaskIds)

SpecWrite == Init /\ [][NextWrite]_vars

\* ------------------------------------------------------- the reads
\* The five reads of the services, each with the collections as it leaves
\* them: a find or find_one, from_dict on what it returns, and no save.

\* BaseDocument.find_by_id: the document of that _id, or None
find_by_id(store, doc_id) == IF doc_id \in DOMAIN store THEN doc_id ELSE None

get_task(store, log, task_id) == Outcome(find_by_id(store, task_id), store, log)

get_session_tasks(store, log, session_id) ==
  Outcome(find_by_session(store, session_id), store, log)

ready_tasks(store, log, session_id) ==
  Outcome(get_ready_tasks(store, session_id), store, log)

\* a listing that saves every pending or in-progress task older than the
\* threshold as stale
stale_tasks_marked(store, log, hours, t) ==
  Outcome(get_stale_tasks(store, hours, t),
          [i \in DOMAIN store |->
             IF /\ store[i].status \in {"pending", "in_progress"}
                /\ store[i].updated_at < t - hours
               THEN [store[i] EXCEPT !.status = "stale", !.updated_at = t]
               ELSE store[i]],
          log)

stale_tasks(store, log, hours, t) ==
  Outcome(get_stale_tasks(store, hours, t), store, log)

session_dashboard(store, log, session_id) ==
  Outcome(get_session_dashboard(store, session_id), store, log)

\* a read returns: `last` keeps the call, what it returned and the
\* collections it was issued on
Read(op, task_id, out) ==
  /\ AllIdle
  /\ tasks' = out.tasks
  /\ logs' = out.logs
  /\ last' = [op |-> op, task_id |-> task_id, new_status |-> None,
              result |-> out.result, tasks |-> tasks, logs |-> logs]
  /\ UNCHANGED <<now, accepted, calls, requests>>

ReadTask(ids) == \E id \in ids : Read("get_task", id, get_task(tasks, logs, id))

ReadSessionTasks ==
  \E s \in SessionIds : Read("get_session_tasks", 0, get_session_tasks(tasks, logs, s))

ReadReadyTasks ==
  \E s \in SessionIds : Read("get_ready_tasks", 0, ready_tasks(tasks, logs, s))

ReadStaleTasks ==
  \E h \in StaleHours : Read("get_stale_tasks", 0, stale_tasks(tasks, logs, h, now))

ReadSessionDashboard ==
  \E s \in SessionIds :
    Read("get_session_dashboard", 0, session_dashboard(tasks, logs, s))

NextRead ==
  \/ CreateTask(MaxLog, RetryIds)
  \/ UpdateTaskStatus(MaxLog, RetryIds, WorkerStatus, WorkerProgress, {None}, {None})
  \/ Elapse(MaxClock)
  \/ ReadTask(RetryIds \cup {UnknownId})
  \/ ReadSessionTasks
  \/ ReadReadyTasks
  \/ ReadStaleTasks
  \/ ReadSessionDashboard

SpecRead == Init /\ [][NextRead]_vars

\* ------------------------------------------------ the session's status
\* The session document as start_research saves it. _create_research_tasks
\* saves it again with its task_ids; no method of TaskService, StatusService
\* or ResearchService writes its status after that, and ResearchSession.complete
\* has no caller.
NewSession == [status |-> "planned", progress |-> 0, completed_at |-> NoTime]

\* ResearchService.get_session_status: ResearchSession.find_by_id returns the
\* stored session, whatever its tasks are; 'status' is that session's
\* status, 'progress' is computed from the tasks; `last` keeps it as report
session_status(store, session_id) ==
  [status |-> NewSession.status,
   progress |-> _calculate_progress(store, find_by_session(store, session_id))]

GetSessionStatusReport ==
  /\ AllIdle
  /\ \E s \in SessionIds :
       last' = [op |-> "get_session_status", task_id |-> 0, new_status |-> None,
                result |-> OK, tasks |-> tasks, logs |-> logs,
                report |-> session_status(tasks, s)]
  /\ UNCHANGED <<tasks, logs, now, accepted, calls, requests>>

NextSession ==
  \/ CreateTask(MaxLog, TaskIds)
  \/ CompleteTask(MaxLog, TaskIds)
  \/ FailTask(MaxLog, TaskIds)
  \/ CancelTask(MaxLog, TaskIds)
  \/ GetSessionStatusReport

\* the status of a session can be asked for at any time, and a request that
\* is made is answered
SpecSession == Init /\ [][NextSession]_vars /\ WF_vars(NextSession)

\* ------------------------------------------------ the staleness clock
\* One task taken through every status-changing method, hours passing
\* between the calls, and the stale-task listing.
NextClock ==
  \/ CreateTask(MaxLog, RetryIds)
  \/ UpdateTaskStatus(MaxLog, RetryIds, WorkerStatus, WorkerProgress, {None}, {None})
  \/ CompleteTask(MaxLog, RetryIds)
  \/ FailTask(MaxLog, RetryIds)
  \/ RetryTask(MaxLog, RetryIds)
  \/ CancelTask(MaxLog, RetryIds)
  \/ Elapse(MaxClock)
  \/ GetStaleTasks

SpecClock == Init /\ [][NextClock]_vars

\* ------------------------------------------------ a session starts up
\* ResearchService._create_research_tasks on the session start_research has
\* just saved: one Task per entry of base_tasks, the session saved again
\* after each, and the collection calls failing in any pattern.
ResearchTypeInputs == {"company_profile", "custom"}

\* base_tasks: three entries for every research type, two more for
\* company_profile
base_tasks(research_type) ==
  << [task_type |-> "data_collection", title |-> "Scrape company website"],
     [task_type |-> "data_collection", title |-> "Get official company data"],
     [task_type |-> "analysis", title |-> "Extract company metadata"] >>
  \o (IF research_type = "company_profile"
        THEN << [task_type |-> "data_collection", title |-> "Find key contacts"],
                [task_type |-> "analysis", title |-> "Analyze company profile"] >>
        ELSE << >>)

\* what the collections do in one turn of the loop:
\*   saved                 both saves write
\*   task_unsaved          task.save returns False or raises
\*   session_unsaved       session.save returns False, task.delete takes the
\*                         task out again
\*   session_raised        session.save raises, the except clause logs it
LoopFaults == {"saved", "task_unsaved", "session_unsaved", "session_raised"}

\* ResearchSession.add_task on the instance's task_ids
add_task(task_ids, task_id) ==
  IF \E k \in DOMAIN task_ids : task_ids[k] = task_id THEN task_ids
  ELSE Append(task_ids, task_id)

\* insert_one of a task: the server gives it an _id no document had before
insert_one(store, id, task, t) ==
  [i \in DOMAIN store \cup {id} |->
     IF i = id THEN [task EXCEPT !.updated_at = t] ELSE store[i]]

\* one turn of the loop for the entry at place i, which gets _id i when it
\* is inserted. st.tasks is the tasks collection, st.task_ids the task_ids of
\* the session instance in memory, st.stored the task_ids of the session
\* document in the collection
create_one(st, session_id, entry, i, fault, t) ==
  LET inserted == insert_one(st.tasks, i,
                             NewTask(session_id, entry.task_type, entry.title, {}, t), t)
      added == add_task(st.task_ids, i)
  IN CASE fault = "task_unsaved" -> st
       [] fault = "saved" ->
            [tasks |-> inserted, task_ids |-> added, stored |-> added]
       [] fault = "session_unsaved" ->
            [tasks |-> st.tasks, task_ids |-> added, stored |-> st.stored]
       [] OTHER ->
            [tasks |-> inserted, task_ids |-> added, stored |-> st.stored]

RECURSIVE create_from(_, _, _, _, _, _)
create_from(st, session_id, entries, i, faults, t) ==
  IF i > Len(entries) THEN st
  ELSE create_from(create_one(st, session_id, entries[i], i, faults[i], t),
                   session_id, entries, i + 1, faults, t)

_create_research_tasks(store, session_id, research_type, faults, t) ==
  create_from([tasks |-> store, task_ids |-> << >>, stored |-> << >>],
              session_id, base_tasks(research_type), 1, faults, t)

\* start_research reaches _create_research_tasks once, on a session that has
\* no task yet; `last` keeps the faults of the call and the task_ids of the
\* session document as the collection holds it afterwards
CreateResearchTasks ==
  /\ AllIdle
  /\ last.op = "none"
  /\ tasks = << >>
  /\ \E s \in SessionIds, ty \in ResearchTypeInputs :
       \E faults \in [1..Len(base_tasks(ty)) -> LoopFaults] :
         LET out == _create_research_tasks(tasks, s, ty, faults, now) IN
         /\ tasks' = out.tasks
         /\ last' = [op |-> "_create_research_tasks", task_id |-> 0, new_status |-> None,
                     result |-> OK, tasks |-> tasks, logs |-> logs,
                     session_id |-> s, task_ids |-> out.stored, faults |-> faults]
         /\ now' = now + 1
  /\ UNCHANGED <<logs, accepted, calls, requests>>

NextStartup == CreateResearchTasks

SpecStartup == Init /\ [][NextStartup]_vars

\* ------------------------------------------------- the rate limiter
\* Two threads calling scrape_url on one BaseScraper, and so on one
\* RateLimiter; `now` is time.time() in seconds. robots.txt allows the URL.
RequestsPerMinute == 30
WindowSize == 60
ScraperMaxRetries == 3
MaxSeconds == 61

\* the recorded times that are still inside the window
in_window(times, current_time) ==
  SelectSeq(times, LAMBDA req_time : current_time - req_time <= WindowSize)

\* RateLimiter.can_make_request, under the lock: the list of the domain is
\* pruned, and the answer is whether it is shorter than the limit
can_make_request(reqs, domain, current_time) ==
  [result |-> Len(in_window(reqs[domain], current_time)) < RequestsPerMinute,
   requests |-> [reqs EXCEPT ![domain] = in_window(@, current_time)]]

\* RateLimiter.record_request, under the lock
record_request(reqs, domain, current_time) ==
  [reqs EXCEPT ![domain] = Append(@, current_time)]

\* scrape_url up to its rate-limit check: refused, it returns None
CanMakeRequest(c) ==
  /\ calls[c].pc = "idle"
  /\ \E d \in DomainInputs :
       LET r == can_make_request(requests, d, now) IN
       /\ requests' = r.requests
       /\ calls' = [calls EXCEPT ![c] =
            IF r.result
              THEN [pc |-> "get", op |-> "scrape_url", domain |-> d, attempt |-> 0]
              ELSE Idle]
  /\ UNCHANGED <<tasks, logs, now, last, accepted>>

\* self.session.get(url) and raise_for_status: a response, or a
\* RequestException and the next attempt, None after the last one
SessionGet(c) ==
  /\ calls[c].pc = "get"
  /\ \/ calls' = [calls EXCEPT ![c] = [@ EXCEPT !.pc = "record"]]
     \/ calls' = [calls EXCEPT ![c] =
          IF calls[c].attempt = ScraperMaxRetries - 1 THEN Idle
          ELSE [@ EXCEPT !.attempt = @ + 1]]
  /\ UNCHANGED <<tasks, logs, now, last, accepted, requests>>

\* self.rate_limiter.record_request(domain) and the return of the page
RecordRequest(c) ==
  /\ calls[c].pc = "record"
  /\ requests' = record_request(requests, calls[c].domain, now)
  /\ calls' = [calls EXCEPT ![c] = Idle]
  /\ UNCHANGED <<tasks, logs, now, last, accepted>>

\* a window goes by
Sleep(bound) ==
  /\ now + WindowSize + 1 <= bound
  /\ now' = now + WindowSize + 1
  /\ UNCHANGED <<tasks, logs, last, accepted, calls, requests>>

NextLimiter ==
  \/ \E c \in Callers :
       \/ CanMakeRequest(c)
       \/ SessionGet(c)
       \/ RecordRequest(c)
  \/ Sleep(MaxSeconds)

SpecLimiter == Init /\ [][NextLimiter]_vars

TypeOK ==
  /\ DOMAIN tasks \subseteq TaskIds
  /\ \A i \in DOMAIN tasks : validate(tasks[i]) = OK

\* ---------------------------------------------------------------- claims
\* the task a call addressed, as stored when the call was issued and now
Known == last.task_id \in DOMAIN last.tasks
Before == last.tasks[last.task_id]
After == tasks[last.task_id]
Unchanged == tasks = last.tasks /\ logs = last.logs
Appended == Len(logs) = Len(last.logs) + 1 /\ SubSeq(logs, 1, Len(last.logs)) = last.logs
Entries(id) == {i \in DOMAIN logs : logs[i].task_id = id}

\* the transition table of the status engine
AllowedTransitions ==
  { <<"pending", "in_progress">>, <<"pending", "cancelled">>,
    <<"in_progress", "completed">>, <<"in_progress", "failed">>,
    <<"in_progress", "waiting_user">>, <<"in_progress", "cancelled">>,
    <<"waiting_user", "in_progress">>, <<"waiting_user", "cancelled">>,
    <<"pending", "stale">>, <<"in_progress", "stale">> }

\* C1: update_task_status accepts a change old -> new only for the pairs of
\* the transition table; for every other pair (failed -> pending, reserved
\* for retry, left aside) the call fails and the stored task is unchanged.
C1_TransitionTable ==
  ( /\ last.op = "update_task_status" /\ Known
    /\ <<Before.status, last.new_status>> \notin AllowedTransitions
    /\ <<Before.status, last.new_status>> # <<"failed", "pending">> ) =>
      (last.result # OK /\ tasks = last.tasks)

\* C2: every stored task has 0 <= retry_count <= max_retries.
C2_RetryCountBounded ==
  \A id \in DOMAIN tasks :
    0 <= tasks[id].retry_count /\ tasks[id].retry_count <= tasks[id].max_retries

C2_Witness ==
  /\ last.op = "retry_task" /\ last.result = ErrMaxRetry
  /\ Known /\ After.retry_count = After.max_retries
  /\ After.status = "failed"

\* both concurrent calls have returned, and they addressed the same task
BothDone ==
  /\ \A c \in Callers : calls[c].pc = "done"
  /\ calls[1].task_id = calls[2].task_id

\* C3: of two concurrent retry calls on one failed task at most one performs
\* the failed -> pending transition, and retry_count does not pass
\* max_retries.
C3_OneRetryWins ==
  (BothDone /\ \A c \in Callers : calls[c].op = "retry_task") =>
    /\ Cardinality({c \in Callers : calls[c].result = OK}) <= 1
    /\ Len(logs) <= Len(last.logs) + 1
    /\ \A id \in DOMAIN tasks : tasks[id].retry_count <= tasks[id].max_retries

\* a stored task and an audit entry with the clock readings left out
NoTimes(task) ==
  [task EXCEPT !.started_at = IF @ = NoTime THEN NoTime ELSE 0,
               !.completed_at = IF @ = NoTime THEN NoTime ELSE 0,
               !.created_at = 0, !.updated_at = 0]
NoStamp(e) == [e EXCEPT !.timestamp = 0]
View(store, log) ==
  <<[i \in DOMAIN store |-> NoTimes(store[i])], [i \in DOMAIN log |-> NoStamp(log[i])]>>

\* the call of caller c made alone on a given store and audit trail
SerialCall(c, store, log) ==
  LET k == calls[c] IN
  CASE k.op = "update_task_status" ->
         update_task_status(store, log, k.task_id, k.new_status, k.progress, None, None, now)
    [] k.op = "complete_task" -> complete_task(store, log, k.task_id, k.arg, now)
    [] k.op = "fail_task" -> fail_task(store, log, k.task_id, k.arg, now)
    [] k.op = "retry_task" -> retry_task(store, log, k.task_id, now)
    [] k.op = "cancel_task" -> cancel_task(store, log, k.task_id, now)

\* the store and audit trail after c1's call and then c2's, from the state
\* the two calls were issued in
Serial(c1, c2) ==
  LET a == SerialCall(c1, last.tasks, last.logs)
      b == SerialCall(c2, a.tasks, a.logs)
  IN View(b.tasks, b.logs)

\* C4: two task-level calls issued concurrently on one task leave the stored
\* task and the audit entries that one of the two serial orders of the same
\* calls leaves.
C4_Serializable ==
  BothDone => View(tasks, logs) \in {Serial(1, 2), Serial(2, 1)}

\* C5: a call addressed to a cancelled task is rejected and the task stays
\* cancelled.
C5_CancelledIsTerminal ==
  (Known /\ Before.status = "cancelled") =>
    (last.result # OK /\ After.status = "cancelled")

\* C6: cancel_task succeeds exactly from pending and in_progress, leaving
\* status cancelled and current_step the cancellation marker; from any other
\* status it raises its precondition error and changes neither the store nor
\* the audit trail.
C6_Cancel ==
  (last.op = "cancel_task" /\ Known) =>
    IF Before.status \in {"pending", "in_progress"}
      THEN /\ last.result = OK
           /\ After.status = "cancelled"
           /\ After.current_step = "Task cancelled by user"
    ELSE /\ last.result = "Only pending or in-progress tasks can be cancelled"
         /\ Unchanged

C6_Witness ==
  /\ last.op = "cancel_task" /\ Known
  /\ Before.status = "completed"
  /\ last.result # OK
  /\ After.status = "completed"

\* C7: retry_task checks its preconditions in order, each with its own
\* error: unknown id, then status other than failed, then retry_count at
\* max_retries; a rejected retry changes neither the store nor the audit
\* trail.
C7_RetryPreconditions ==
  (last.op = "retry_task") =>
    IF ~Known
      THEN last.result = "Task not found" /\ Unchanged
    ELSE IF Before.status # "failed"
      THEN last.result = "Only failed tasks can be retried" /\ Unchanged
    ELSE IF Before.retry_count >= Before.max_retries
      THEN last.result = "Maximum retry attempts exceeded" /\ Unchanged
    ELSE last.result = OK

C7_Witness ==
  /\ last.op = "retry_task" /\ Known
  /\ Before.status = "pending" /\ Before.retry_count = Before.max_retries
  /\ last.result = "Only failed tasks can be retried"

\* C8: a successful retry adds one to retry_count, clears error_message,
\* resets progress to 0, sets current_step to the retry marker and status to
\* pending, and appends one audit entry failed -> pending whose reason is
\* "Retry attempt N of M", N the new retry_count and M max_retries.
C8_RetryEffect ==
  (last.op = "retry_task" /\ last.result = OK) =>
    /\ After.retry_count = Before.retry_count + 1
    /\ After.error_message = None
    /\ After.progress = 0
    /\ After.current_step = "Task queued for retry"
    /\ After.status = "pending"
    /\ Appended
    /\ LET e == logs[Len(logs)] IN
         /\ e.task_id = last.task_id
         /\ e.old_status = "failed" /\ e.new_status = "pending"
         /\ e.change_reason = "Retry attempt " \o ToString(After.retry_count)
                                \o " of " \o ToString(After.max_retries)

C8_Witness ==
  /\ last.op = "retry_task" /\ last.result = OK
  /\ Before.progress = 25 /\ Before.error_message = "timeout"
  /\ After.retry_count = 2
  /\ logs[Len(logs)].change_reason = "Retry attempt 2 of 3"

\* the audit entries the calls of the retry scenario leave
IsCreated(e) == e.old_status = None /\ e.new_status = "pending"
IsStarted(e) == e.old_status = "pending" /\ e.new_status = "in_progress"
IsFailed(e) == e.new_status = "failed" /\ e.change_reason = "timeout"
IsRetried(e) == e.old_status = "failed" /\ e.new_status = "pending"

\* create, transition to in_progress, fail, then retries only
ConsecutiveRetries(log) ==
  /\ Len(log) >= 3
  /\ IsCreated(log[1]) /\ IsStarted(log[2]) /\ IsFailed(log[3])
  /\ \A i \in 4..Len(log) : IsRetried(log[i])

\* create, transition to in_progress, fail, then retry and fail in turn
RetriesAfterFailures(log) ==
  /\ Len(log) >= 3
  /\ IsCreated(log[1]) /\ IsStarted(log[2]) /\ IsFailed(log[3])
  /\ \A i \in 4..Len(log) : IF i % 2 = 0 THEN IsRetried(log[i]) ELSE IsFailed(log[i])

\* C9 as stated: after create, transition(in_progress, 25) and fail, each of
\* three consecutive retries succeeds, leaving status pending, progress 0
\* and no error_message, and the fourth raises the retry-limit error.
C9_ConsecutiveRetries ==
  (last.op = "retry_task" /\ ConsecutiveRetries(last.logs)) =>
    IF Len(last.logs) - 3 < DefaultMaxRetries
      THEN /\ last.result = OK
           /\ After.status = "pending" /\ After.progress = 0
           /\ After.error_message = None
    ELSE last.result = ErrMaxRetry

\* C9 amended: after create, transition(in_progress, 25) and fail, a retry
\* succeeds; a retry that follows a retry directly is refused because the
\* task is pending; with the task failed again before each retry, the first
\* three retries succeed, each leaving status pending, progress 0 and no
\* error_message, and the fourth raises the retry-limit error.
C9_RetriesAfterFailures ==
  (last.op = "retry_task" /\ RetriesAfterFailures(last.logs)) =>
    IF Len(last.logs) % 2 = 0
      THEN last.result = ErrOnlyFailed /\ Unchanged
    ELSE IF (Len(last.logs) - 3) \div 2 < DefaultMaxRetries
      THEN /\ last.result = OK
           /\ After.status = "pending" /\ After.progress = 0
           /\ After.error_message = None
           /\ After.retry_count = (Len(last.logs) - 3) \div 2 + 1
    ELSE last.result = ErrMaxRetry /\ Unchanged

C9_Witness ==
  /\ last.op = "retry_task" /\ RetriesAfterFailures(last.logs)
  /\ Len(last.logs) = 9
  /\ last.result = ErrMaxRetry
  /\ After.retry_count = 3

\* C10: a call that is accepted appends one audit entry for its task and a
\* rejected call appends none, so each task has as many audit entries as
\* accepted status-changing calls.
C10_OneEntryPerAcceptedCall ==
  /\ \A id \in TaskIds : Cardinality(Entries(id)) = accepted[id]
  /\ last.op # "none" =>
       IF last.result = OK
         THEN Appended /\ logs[Len(logs)].task_id = last.task_id
         ELSE logs = last.logs

C10_Witness ==
  /\ accepted[1] = 2 /\ Cardinality(Entries(1)) = 2
  /\ last.task_id = 1 /\ last.result # OK /\ Known

\* the latest audit entry of a task
Latest(id) == CHOOSE i \in Entries(id) : \A j \in Entries(id) : j <= i

\* C11: a status change and its audit entry are written together or not at
\* all: the status every stored task has is the one its latest audit entry
\* records, and a call that added no audit entry left the store as it was
\* and raised.
C11_ChangeAndAuditTogether ==
  /\ \A id \in DOMAIN tasks :
       Entries(id) # {} => logs[Latest(id)].new_status = tasks[id].status
  /\ (last.op \notin {"none", "create_task"} /\ logs = last.logs) =>
       (tasks = last.tasks /\ last.result # OK)

\* C12: the audit trail is append-only: whatever operation ran last, the
\* entries written before it are all still there, unchanged and in their
\* places, and anything new comes after them.
C12_AppendOnly ==
  /\ Len(logs) >= Len(last.logs)
  /\ SubSeq(logs, 1, Len(last.logs)) = last.logs

\* C13: every stored task whose status is completed has progress 100 and
\* completed_at set.
C13_CompletedIsWhole ==
  \A id \in DOMAIN tasks :
    tasks[id].status = "completed" =>
      (tasks[id].progress = 100 /\ tasks[id].completed_at # NoTime)

\* C14: every stored task whose status is failed has a non-empty
\* error_message, and a call that would enter failed without one is rejected
\* and leaves the task as it was.
C14_FailedHasMessage ==
  /\ \A id \in DOMAIN tasks :
       tasks[id].status = "failed" => tasks[id].error_message \notin {"", None}
  /\ ( /\ last.op = "update_task_status" /\ last.new_status = "failed" /\ Known
       /\ After.error_message \in {"", None} ) =>
         (last.result # OK /\ tasks = last.tasks)

\* C15: every stored task whose status is completed carries no
\* error_message.
C15_CompletedHasNoError ==
  \A id \in DOMAIN tasks :
    tasks[id].status = "completed" => tasks[id].error_message \in {"", None}

\* every id in the task's depends_on resolves to a stored task that is
\* completed
AllPredecessorsCompleted(store, id) ==
  \A d \in store[id].depends_on : d \in DOMAIN store /\ store[d].status = "completed"

\* C16: _dependencies_satisfied is true of every task with empty depends_on
\* and otherwise true exactly when every id in depends_on resolves to a
\* completed task, an id that resolves to no task making it false;
\* get_ready_tasks returns the pending tasks it is true of.
C16_IsReady ==
  /\ \A id \in DOMAIN tasks :
       _dependencies_satisfied(tasks, tasks[id]) <=>
         (tasks[id].depends_on = {} \/ AllPredecessorsCompleted(tasks, id))
  /\ last.op = "get_ready_tasks" =>
       last.result = {id \in DOMAIN tasks :
                        /\ tasks[id].status = "pending"
                        /\ (tasks[id].depends_on = {} \/ AllPredecessorsCompleted(tasks, id))}

C16_Witness ==
  /\ last.op = "get_ready_tasks"
  /\ DOMAIN tasks = {1, 2}
  /\ tasks[1].status = "completed"
  /\ tasks[2].status = "pending" /\ tasks[2].depends_on = {1, UnknownId}
  /\ last.result = {}

\* C17: a task B whose depends_on is [A] is not ready in any state in which
\* A is pending, in_progress or failed, and B goes from not ready to ready
\* in exactly the calls that take A's status to completed.
C17_DependencyRoundTrip ==
  \A a, b \in DOMAIN tasks :
    tasks[b].depends_on = {a} =>
      /\ tasks[a].status \in {"pending", "in_progress", "failed"} =>
           ~_dependencies_satisfied(tasks, tasks[b])
      /\ b \in DOMAIN last.tasks =>
           ( ( /\ ~_dependencies_satisfied(last.tasks, last.tasks[b])
               /\ _dependencies_satisfied(tasks, tasks[b]) )
             <=> (last.tasks[a].status # "completed" /\ tasks[a].status = "completed") )

C17_Witness ==
  /\ last.op = "complete_task" /\ last.task_id = 1 /\ last.result = OK
  /\ DOMAIN tasks = {1, 2} /\ tasks[2].depends_on = {1}
  /\ last.tasks[1].status = "in_progress"
  /\ ~_dependencies_satisfied(last.tasks, last.tasks[2])
  /\ _dependencies_satisfied(tasks, tasks[2])
  /\ tasks[2].status = "pending"

\* C18: _check_dependent_tasks(task_id), run at the end of a call that
\* completed task_id, returns exactly the tasks whose depends_on contains
\* task_id, that are still pending and whose dependencies are all completed,
\* and the status of every other task is what it was before the call.
C18_ReturnsNewlyReady ==
  ( /\ last.op \in {"complete_task", "update_task_status"}
    /\ last.new_status = "completed"
    /\ last.result = OK ) =>
      LET r == _check_dependent_tasks(tasks, last.task_id) IN
      /\ r.result # None
      /\ r.result = {id \in DOMAIN tasks :
                       /\ last.task_id \in tasks[id].depends_on
                       /\ tasks[id].status = "pending"
                       /\ AllPredecessorsCompleted(tasks, id)}
      /\ \A id \in DOMAIN tasks \ {last.task_id} :
           tasks[id].status = last.tasks[id].status

\* C19: no call takes a task from pending to in_progress while some task in
\* its depends_on is not completed.
C19_DependenciesGateStart ==
  (Known /\ Before.status = "pending" /\ After.status = "in_progress") =>
    \A d \in Before.depends_on :
      d \in DOMAIN last.tasks => last.tasks[d].status = "completed"

\* C20: cancel_task leaves every task but the cancelled one as it was, and
\* once a task has been cancelled no task that depends on it is ready in any
\* later state.
C20_CancelBlocksDependents ==
  /\ (last.op = "cancel_task" /\ last.result = OK) =>
       \A id \in DOMAIN tasks \ {last.task_id} : tasks[id] = last.tasks[id]
  /\ \A k \in DOMAIN logs :
       logs[k].new_status = "cancelled" =>
         \A b \in find_dependent_tasks(tasks, logs[k].task_id) :
           ~_dependencies_satisfied(tasks, tasks[b])

\* C21: get_stale_tasks(hours) returns exactly the tasks whose status is
\* pending or in_progress and whose updated_at is more than `hours` hours
\* before the time of the call.
C21_FindStale ==
  last.op = "get_stale_tasks" =>
    last.result = {id \in DOMAIN tasks :
                     /\ tasks[id].status \in {"pending", "in_progress"}
                     /\ tasks[id].updated_at < now - last.hours}

\* the progress figures of a session, from the statuses of its tasks
ProgressFigures(ids) ==
  LET total == Cardinality(ids)
      completed == Cardinality({i \in ids : tasks[i].status = "completed"})
  IN [percentage |-> IF total = 0 THEN 0 ELSE (100 * completed) \div total,
      completed_tasks |-> completed,
      total_tasks |-> total]

\* C22: get_session_dashboard reports, for the session, total_tasks = the
\* number of its tasks, completed_tasks = the number of them that are
\* completed and completion_percentage = 100 * completed / total, which is 0
\* for a session without tasks, 100 when every task is completed and always
\* within 0..100.
C22_SessionProgress ==
  last.op = "get_session_dashboard" =>
    /\ last.result.raised = None
    /\ LET p == last.result.progress
           f == ProgressFigures({i \in DOMAIN tasks : tasks[i].session_id \in SessionIds})
       IN /\ p.total_tasks = f.total_tasks
          /\ p.completed_tasks = f.completed_tasks
          /\ p.completion_percentage = f.percentage
          /\ p.completion_percentage \in 0..100

\* what ResearchService.get_session_status reports as progress: the same
\* figures, computed by _calculate_progress
SessionStatusProgress ==
  last.op = "get_session_status" =>
    /\ last.result.raised = None
    /\ LET p == last.result.progress
           f == ProgressFigures({i \in DOMAIN tasks : tasks[i].session_id \in SessionIds})
       IN /\ p.total_tasks = f.total_tasks
          /\ p.completed_tasks = f.completed_tasks
          /\ p.percentage = f.percentage
          /\ p.percentage \in 0..100

C24_ProgressInRange ==
  \A id \in DOMAIN tasks : 0 <= tasks[id].progress /\ tasks[id].progress <= 100

C24_Witness ==
  /\ last.op = "update_task_status" /\ last.new_status = "in_progress"
  /\ last.result = "Progress must be between 0 and 100"
  /\ Known /\ After = Before /\ Before.progress = 25

\* C25: started_at is written by the first update to in_progress, with the
\* time of that call, and no later call changes it: not a repeated
\* in_progress update, nor one that follows a failure and a retry.
C25_StartedAtOnce ==
  Known =>
    /\ Before.started_at # NoTime => After.started_at = Before.started_at
    /\ ( /\ last.op = "update_task_status" /\ last.new_status = "in_progress"
         /\ last.result = OK /\ Before.started_at = NoTime ) =>
           After.started_at = After.updated_at
    /\ (last.op # "update_task_status" \/ last.new_status # "in_progress") =>
         After.started_at = Before.started_at

C25_Witness ==
  /\ last.op = "update_task_status" /\ last.new_status = "in_progress"
  /\ last.result = OK /\ Known
  /\ Before.status = "pending" /\ Before.retry_count = 1
  /\ Before.started_at # NoTime
  /\ After.started_at = Before.started_at
  /\ After.updated_at > After.started_at + 2

\* C26: a status update to stale changes the status and nothing else the
\* task carries, retry_count and error_message included; a later update of
\* the stale task to in_progress or pending is accepted and replaces stale.
C26_StaleIsAFlag ==
  (last.op = "update_task_status" /\ Known) =>
    /\ last.new_status = "stale" =>
         /\ last.result = OK
         /\ After = [Before EXCEPT !.status = "stale", !.updated_at = After.updated_at]
    /\ (Before.status = "stale" /\ last.new_status \in {"in_progress", "pending"}) =>
         /\ last.result = OK
         /\ After.status = last.new_status
         /\ After.retry_count = Before.retry_count
         /\ After.error_message = Before.error_message

C26_Witness ==
  /\ last.op = "update_task_status" /\ Known
  /\ Before.status = "stale" /\ Before.error_message = "timeout"
  /\ last.new_status = "in_progress" /\ last.result = OK
  /\ After.status = "in_progress" /\ After.error_message = "timeout"

\* C27: a failed task whose retry_count has reached max_retries stays
\* failed: no call addressed to it, retry_task and update_task_status to
\* pending included, leaves it in another status.
C27_ExhaustedIsTerminal ==
  (Known /\ Before.status = "failed" /\ Before.retry_count = Before.max_retries) =>
    After.status = "failed"

\* C28: when the task write of update_task_status, fail_task, retry_task or
\* cancel_task fails, the caller is given the failure instead of the task,
\* the store holds what it held before the call and the audit trail has no
\* new entry.
C28_NoPartialWrite ==
  ("write" \in DOMAIN last) =>
    /\ last.op \in {"update_task_status", "fail_task", "retry_task", "cancel_task"}
    /\ last.result = last.write
    /\ Known
    /\ After = Before
    /\ tasks = last.tasks
    /\ logs = last.logs

C28_Witness ==
  /\ "write" \in DOMAIN last
  /\ last.op = "fail_task"
  /\ last.write = SaveFailed
  /\ Known
  /\ Before.status = "in_progress"
  /\ After.status = "in_progress"
  /\ Len(logs) = 2

\* C29: a task whose status is failed has no completed_at, whichever of
\* fail_task and update_task_status to failed brought it there.
C29_FailedHasNoCompletedAt ==
  \A id \in DOMAIN tasks :
    tasks[id].status = "failed" => tasks[id].completed_at = NoTime

ReadOps == {"get_task", "get_session_tasks", "get_ready_tasks", "get_stale_tasks",
            "get_session_dashboard"}

\* C31: get_task, get_session_tasks, get_ready_tasks, get_stale_tasks and
\* get_session_dashboard leave every stored task and every audit entry as
\* they found them; get_stale_tasks in particular sets no status to stale.
C31_ReadsAreReadOnly ==
  last.op \in ReadOps =>
    /\ tasks = last.tasks
    /\ logs = last.logs
    /\ \A i \in DOMAIN tasks : tasks[i].status # "stale"

C31_Witness ==
  /\ last.op = "get_stale_tasks"
  /\ 1 \in DOMAIN last.tasks
  /\ last.tasks[1].status = "in_progress"
  /\ last.tasks[1].updated_at + 24 < now
  /\ tasks[1].status = "in_progress"

\* C32: once every task of a session is completed, failed or cancelled, a
\* request for the session's status is eventually answered with a status
\* other than planned and in_progress.
AllTasksTerminal ==
  /\ DOMAIN tasks # {}
  /\ \A i \in DOMAIN tasks : tasks[i].status \in {"completed", "failed", "cancelled"}

C32_SessionBecomesTerminal ==
  AllTasksTerminal ~>
    (last.op = "get_session_status" /\ last.report.status \notin {"planned", "in_progress"})

\* C33: the audit entries of a task form a chain: each entry's old_status is
\* the new_status of the task's entry before it, and the new_status of the
\* task's latest entry is the status the task is stored with.
C33_AuditChain ==
  \A id \in DOMAIN tasks :
    /\ \A i, j \in Entries(id) :
         (i < j /\ \A k \in Entries(id) : ~(i < k /\ k < j)) =>
           logs[j].old_status = logs[i].new_status
    /\ Entries(id) # {} => logs[Latest(id)].new_status = tasks[id].status

\* C34: retry_count counts the times a task has left failed: it equals the
\* number of the task's audit entries that take it from failed to another
\* status, the worker's update to in_progress after a fail_task included.
C34_RetryCountCountsLeavingFailed ==
  \A id \in DOMAIN tasks :
    tasks[id].retry_count =
      Cardinality({i \in Entries(id) :
                     logs[i].old_status = "failed" /\ logs[i].new_status # "failed"})

\* C35: the categories the dashboard breaks a session's tasks into are a
\* partition of them: whatever statuses the tasks have, each task is in
\* exactly one category and the sizes of the categories add up to the number
\* of tasks.
Buckets == {"waiting_system", "waiting_user", "completed", "failed", "pending"}

C35_BreakdownPartitions ==
  last.op = "_calculate_overall_status" =>
    LET c == task_categories(last.statuses) IN
    /\ \A i \in DOMAIN last.statuses : Cardinality({b \in Buckets : i \in c[b]}) = 1
    /\ Cardinality(c.waiting_system) + Cardinality(c.waiting_user)
         + Cardinality(c.completed) + Cardinality(c.failed) + Cardinality(c.pending)
       = Len(last.statuses)

\* C36: for a session that has tasks, the overall status is completed only
\* if every one of them is completed.
C36_CompletedMeansAllCompleted ==
  (/\ last.op = "_calculate_overall_status"
   /\ Len(last.statuses) >= 1
   /\ last.result = "completed") =>
    \A i \in DOMAIN last.statuses : last.statuses[i] = "completed"

C38_SessionListsItsTasks ==
  last.op = "_create_research_tasks" =>
    LET ids == last.task_ids IN
    /\ \A k \in DOMAIN ids : ids[k] \in DOMAIN tasks
    /\ \A i \in DOMAIN tasks :
         tasks[i].session_id = last.session_id => \E k \in DOMAIN ids : ids[k] = i
    /\ \A j, k \in DOMAIN ids : ids[j] = ids[k] => j = k

\* C39: whatever the interleaving of the threads, the requests recorded for
\* a domain inside one window are never more than the limit.
C39_WithinRateLimit ==
  \A d \in DomainInputs : Len(in_window(requests[d], now)) <= RequestsPerMinute

====
